---- MODULE Spec2Model ----
(***************************************************************************)
(* A model of ckanext-qa's reporting module (ckanext/qa/reports.py) and of *)
(* the trigger path of its plugin (ckanext/qa/plugin.py).                  *)
(*                                                                         *)
(* The record store (the tables task_status, resource, package, member,   *)
(* "group") is the state the reports read.  Every report is a call: it    *)
(* runs its query, walks the rows and either returns a value (pc = "done", *)
(* result) or lets a Python exception escape (pc = "raised", raised).      *)
(*                                                                         *)
(* Python values are modelled as follows: a dict / OrderedDict / row is a  *)
(* function from its keys; None and the empty dict, which Python's `if x`  *)
(* does not tell apart, are both the function with the empty domain; a     *)
(* unicode string that the code or the query orders (>, max, ORDER BY) is  *)
(* ordered by the codes of its characters, as Python and SQL order text.   *)
(***************************************************************************)
EXTENDS Integers, Sequences, FiniteSets, TLC

VARIABLES
    group_parent,    \* "group" hierarchy: name -> name of the parent, or NoParent
    group_state,     \* "group".state by group name
    package_state,   \* package.state by package name
    resource_state,  \* resource.state by resource id
    member,          \* member table: set of [table_id, group_id]
    task_status,     \* task_status table: set of rows
    queue,           \* the task broker: the jobs sent to it, oldest first
    pc,              \* position of the running call: idle, loop, done, raised
    call,            \* the call in progress or just finished: its name and arguments
    rows,            \* the query's row stream (read so far, or still to read)
    i,               \* number of rows of the stream already processed
    last_row,        \* scores_by_dataset_for_organisation: last_row
    res_data,        \* scores_by_dataset_for_organisation: the accumulator res_data
    data,            \* the report's data under construction
    result,          \* the value returned
    raised           \* the exception that escaped, or NoError

vars == << group_parent, group_state, package_state, resource_state, member,
           task_status, queue, pc, call, rows, i, last_row, res_data, data,
           result, raised >>

\* what no report writes: the tables and the broker
store == << group_parent, group_state, package_state, resource_state, member,
            task_status, queue >>

----------------------------------------------------------------------------
(* Python values *)

\* None, and the empty dict: `if x` is false for both.
PyNone == << >>

Truthy(d) == DOMAIN d # {}

Has(d, k) == k \in DOMAIN d

\* d[k] = v
Put(d, k, v) == [x \in DOMAIN d \cup {k} |-> IF x = k THEN v ELSE d[x]]

NoError == "NoError"

Max2(a, b) == IF a >= b THEN a ELSE b

----------------------------------------------------------------------------
(* Bounds *)

\* Longest row stream fed to the collation loop.
MaxRows == 4

\* Timestamps of task_status.last_updated.
Times == {1, 2}

\* Most jobs the broker is sent.
MaxJobs == 3

----------------------------------------------------------------------------
(* Text.  Identity of a string is the TLA+ string; its order is that of its  *)
(* characters' codes, compared left to right as Python 2 and SQL compare     *)
(* text.                                                                     *)

Code(s) ==
    CASE s = "0"  -> << 48 >>
      [] s = "5"  -> << 53 >>
      [] s = "9"  -> << 57 >>
      [] s = "10" -> << 49, 48 >>
      [] s = "A"  -> << 65 >>
      [] s = "B"  -> << 66 >>
      [] s = "C"  -> << 67 >>
      [] s = "p1" -> << 112, 49 >>
      [] s = "p2" -> << 112, 50 >>
      [] s = "p3" -> << 112, 51 >>
      [] s = "celery_task_id"        -> << 99 >>
      [] s = "openness_score"        -> << 111 >>
      [] s = "openness_score_reason" -> << 111, 95 >>
      [] s = "status"                -> << 115 >>

RECURSIVE SeqLess(_, _)
SeqLess(a, b) ==
    IF a = << >> THEN b # << >>
    ELSE IF b = << >> THEN FALSE
    ELSE IF Head(a) # Head(b) THEN Head(a) < Head(b)
    ELSE SeqLess(Tail(a), Tail(b))

\* a < b on text
TextLess(a, b) == SeqLess(Code(a), Code(b))

\* int(s) for a string of decimal digits
RECURSIVE DigitsValue(_, _)
DigitsValue(c, acc) ==
    IF c = << >> THEN acc ELSE DigitsValue(Tail(c), 10 * acc + (Head(c) - 48))

PyInt(s) == DigitsValue(Code(s), 0)

----------------------------------------------------------------------------
(* The catalogue: the columns of resource, package and "group" that no      *)
(* report changes and no claim varies.                                       *)

Resources == {"r1", "r2", "r3", "r4"}
Packages  == {"p1", "p2", "p3"}
Groups    == {"alpha", "alpha-sub", "beta"}

\* resource -> resource_group -> package
ResPackage(r)  == CASE r = "r3" -> "p2" [] r = "r4" -> "p3" [] OTHER -> "p1"
ResPosition(r) == IF r = "r2" THEN 1 ELSE 0
ResUrl(r)      == CASE r = "r1" -> "http://x/1" [] r = "r2" -> "http://x/2"
                    [] r = "r3" -> "http://x/3" [] r = "r4" -> "http://x/4"

\* package.title: the name order and the title order differ, and two
\* packages have the same title
PackageTitle(p) == IF p = "p2" THEN "A" ELSE "B"

\* "group".title
GroupTitle(g) == CASE g = "alpha" -> "C" [] g = "alpha-sub" -> "A" [] g = "beta" -> "B"

NoParent == "NoParent"

----------------------------------------------------------------------------
(* scores_by_dataset_for_organisation: the collation loop                   *)

not_broken_but_0_stars == {"Chose not to download"}

archiver_status__not_broken_link == {"Chose not to download", "Archived successfully"}

\* One row of the query of scores_by_dataset_for_organisation for a resource
\* of the organisation: the columns of the select list.
ScoreRow(r, g, k, v, t) ==
    [ package_id |-> ResPackage(r),
      task_status_key |-> k,
      task_status_value |-> v,
      task_status_last_updated |-> t,
      resource_id |-> r,
      resource_url |-> ResUrl(r),
      position |-> ResPosition(r),
      package_title |-> PackageTitle(ResPackage(r)),
      package_name |-> ResPackage(r),
      publisher_name |-> g,
      publisher_title |-> GroupTitle(g) ]

init_res_data(row) ==
    [ package_name |-> row.package_name,
      package_title |-> row.package_title,
      resource_id |-> row.resource_id,
      resource_url |-> row.resource_url,
      resource_position |-> row.position ]

\* res_data['openness_score_reason'] raises KeyError when the key is absent
save_res_data_raises(rd) == ~ Has(rd, "openness_score_reason")

save_res_data_unfiltered(rd, d) == Append(d, rd)

\* the list `data` after save_res_data(row, res_data, data), when it does not raise
save_res_data(rd, d) ==
    IF rd["openness_score_reason"] \in not_broken_but_0_stars
    THEN d
    ELSE Append(d, rd)

\* lines 252-257: merge the row's key and the running maximum of last_updated
merge_row(rd, row) ==
    LET rd1 == Put(rd, row.task_status_key, row.task_status_value)
    IN  IF Has(rd1, "openness_score_updated")
        THEN Put(rd1, "openness_score_updated",
                 Max2(row.task_status_last_updated, rd1["openness_score_updated"]))
        ELSE Put(rd1, "openness_score_updated", row.task_status_last_updated)

\* The (key, value) pairs a task_status row of the stream may carry.
CollateFacts ==
    { << "openness_score", "0" >>,
      << "openness_score_reason", "Chose not to download" >>,
      << "openness_score_reason", "Not found" >>,
      << "status", "0" >> }

CollateResources == {"r1", "r2"}

CollateOrg == "alpha"

CollateRows ==
    { ScoreRow(r, CollateOrg, f[1], f[2], t) :
        r \in CollateResources, f \in CollateFacts, t \in Times }

\* The store the collation specification leaves untouched.
FixedStore ==
    /\ group_parent = [g \in Groups |-> IF g = "alpha-sub" THEN "alpha" ELSE NoParent]
    /\ group_state = [g \in Groups |-> "active"]
    /\ package_state = [p \in Packages |-> "active"]
    /\ resource_state = [r \in Resources |-> "active"]
    /\ member = {}
    /\ task_status = {}

CollateInit ==
    /\ FixedStore
    /\ queue = << >>
    /\ pc = "loop"
    /\ call = [name |-> "scores_by_dataset_for_organisation",
               organisation_name |-> CollateOrg]
    /\ rows = << >>
    /\ i = 0
    /\ last_row = PyNone
    /\ res_data = PyNone
    /\ data = << >>
    /\ result = PyNone
    /\ raised = NoError

\* One iteration of `for row in rows` (lines 246-258) on the next row of the
\* stream.
CollateRow(row) ==
    /\ pc = "loop"
    /\ Len(rows) < MaxRows
    /\ rows' = Append(rows, row)
    /\ i' = i + 1
    /\ LET flush == /\ Truthy(last_row)
                    /\ row.resource_id # last_row.resource_id
                    /\ Truthy(res_data)
       IN  IF flush /\ save_res_data_raises(res_data)
           THEN /\ pc' = "raised"
                /\ raised' = "KeyError"
                /\ UNCHANGED << last_row, res_data, data, result >>
           ELSE /\ data' = IF flush THEN save_res_data(res_data, data) ELSE data
                /\ res_data' = merge_row(IF ~ Truthy(last_row) \/ flush
                                         THEN init_res_data(row)
                                         ELSE res_data, row)
                /\ last_row' = row
                /\ UNCHANGED << pc, raised, result >>
    /\ UNCHANGED << store, call >>

\* End of the stream: the final flush (lines 259-260) and the return
\* (lines 262-264).
CollateEnd ==
    /\ pc = "loop"
    /\ IF Truthy(res_data) /\ save_res_data_raises(res_data)
       THEN /\ pc' = "raised"
            /\ raised' = "KeyError"
            /\ UNCHANGED << data, result >>
       ELSE /\ data' = IF Truthy(res_data) THEN save_res_data(res_data, data) ELSE data
            /\ result' =
                 [ publisher_name |-> IF data' # << >>
                                      THEN rows[Len(rows)].publisher_name
                                      ELSE call.organisation_name,
                   publisher_title |-> IF data' # << >>
                                       THEN rows[Len(rows)].publisher_title
                                       ELSE "",
                   broken_resources |-> data' ]
            /\ pc' = "done"
            /\ UNCHANGED raised
    /\ UNCHANGED << store, call, rows, i, last_row, res_data >>

CollateNext ==
    \/ \E row \in CollateRows : CollateRow(row)
    \/ CollateEnd

SpecCollate == CollateInit /\ [][CollateNext]_vars

----------------------------------------------------------------------------
(* Properties of the collation loop *)

RECURSIVE FirstArrivals(_, _)
\* the distinct resource ids of a stream, in the order in which they first arrive
FirstArrivals(stream, seen) ==
    IF stream = << >> THEN << >>
    ELSE IF Head(stream).resource_id \in seen
         THEN FirstArrivals(Tail(stream), seen)
         ELSE << Head(stream).resource_id >>
              \o FirstArrivals(Tail(stream), seen \cup {Head(stream).resource_id})

RowsOf(r) == { j \in 1..Len(rows) : rows[j].resource_id = r }

HasKey(r, k) == \E j \in RowsOf(r) : rows[j].task_status_key = k

ExcludedResource(r) ==
    \E j \in RowsOf(r) : /\ rows[j].task_status_key = "openness_score_reason"
                         /\ rows[j].task_status_value \in not_broken_but_0_stars

\* at most one value per key and resource, as the store's uniqueness gives
OneValuePerKey ==
    \A j, k \in 1..Len(rows) :
        (rows[j].resource_id = rows[k].resource_id
         /\ rows[j].task_status_key = rows[k].task_status_key)
        => rows[j].task_status_value = rows[k].task_status_value

Ended == pc \in {"done", "raised"}

\* C3: no record of 'broken_resources' (nor of the list under construction)
\* has an openness_score_reason of the exclusion set not_broken_but_0_stars.
C3_ExcludedNeverListed ==
    /\ \A k \in 1..Len(data) :
          Has(data[k], "openness_score_reason")
          => data[k]["openness_score_reason"] \notin not_broken_but_0_stars
    /\ pc = "done" =>
          \A k \in 1..Len(result.broken_resources) :
              Has(result.broken_resources[k], "openness_score_reason")
              => result.broken_resources[k]["openness_score_reason"]
                    \notin not_broken_but_0_stars

\* An excluded resource with a score of 0 arrives in the middle of the stream,
\* between two listed ones, and the report has returned.
C3_Witness ==
    /\ pc = "done"
    /\ Len(rows) = 4
    /\ rows[2].resource_id = rows[3].resource_id
    /\ rows[1].resource_id # rows[2].resource_id
    /\ rows[2].task_status_key = "openness_score"
    /\ rows[2].task_status_value = "0"
    /\ rows[3].task_status_value \in not_broken_but_0_stars
    /\ Len(result.broken_resources) = 2

\* C4: at the end of any stream the loop has emitted exactly one record per
\* distinct non-excluded resource id, holding every key->value pair of that
\* resource's rows, in the order of first arrival.
C4_OneRecordPerResource ==
    (Ended /\ OneValuePerKey) =>
        /\ pc = "done"
        /\ LET ids == SelectSeq(FirstArrivals(rows, {}),
                                LAMBDA r : ~ ExcludedResource(r))
           IN  /\ Len(result.broken_resources) = Len(ids)
               /\ \A k \in 1..Len(ids) :
                     /\ result.broken_resources[k]["resource_id"] = ids[k]
                     /\ \A j \in RowsOf(ids[k]) :
                           /\ Has(result.broken_resources[k], rows[j].task_status_key)
                           /\ result.broken_resources[k][rows[j].task_status_key]
                                 = rows[j].task_status_value

\* C8: a resource with a score row but no reason row is delivered with the
\* reason key absent, and the report returns without raising.
C8_IncompleteDelivered ==
    Ended =>
        \A r \in CollateResources :
            (HasKey(r, "openness_score") /\ ~ HasKey(r, "openness_score_reason"))
            => /\ pc = "done"
               /\ raised = NoError
               /\ \E k \in 1..Len(result.broken_resources) :
                     /\ result.broken_resources[k]["resource_id"] = r
                     /\ ~ Has(result.broken_resources[k], "openness_score_reason")

----------------------------------------------------------------------------
(* The record store and its queries *)

\* None in a text column or field, and in a numeric one
NoneStr == "None"
NoneNum == -1

\* a row of task_status
TaskRow(e, tt, k, v, err, t) ==
    [ entity_id |-> e, task_type |-> tt, key |-> k, value |-> v,
      error |-> err, last_updated |-> t ]

\* at most one row per (entity_id, task_type, key)
UniqueTasks(T) ==
    \A a, b \in T :
        (a.entity_id = b.entity_id /\ a.task_type = b.task_type /\ a.key = b.key)
        => a = b

\* resource.state = 'active' and package.state = 'active'; every resource
\* is in the one, active, resource_group of its package
ActiveResource(r) ==
    /\ resource_state[r] = "active"
    /\ package_state[ResPackage(r)] = "active"

\* member joined to "group": the active groups a package is a member of
ActiveGroupsOf(p) ==
    { m.group_id : m \in { x \in member : x.table_id = p
                                          /\ group_state[x.group_id] = "active" } }

\* model.Group.by_name(name): the group's name, or None
GroupByName(name) == IF name \in Groups THEN name ELSE NoneStr

\* model.Package.get(id), model.Resource.get(id)
PackageGet(id)  == IF id \in Packages THEN id ELSE NoneStr
ResourceGet(id) == IF id \in Resources THEN id ELSE NoneStr

(* ORDER BY.  A sort key is a tuple of components, each a sequence of codes; *)
(* rows with equal keys come in any order.                                   *)
RECURSIVE KeyLess(_, _)
KeyLess(k1, k2) ==
    IF k1 = << >> THEN FALSE
    ELSE IF Head(k1) # Head(k2) THEN SeqLess(Head(k1), Head(k2))
    ELSE KeyLess(Tail(k1), Tail(k2))

RECURSIVE Orders(_)
\* every sequence of the rows of S (a set of [key, row, id]) in key order
Orders(S) ==
    IF S = {} THEN { << >> }
    ELSE UNION { { << x.row >> \o t : t \in Orders(S \ {x}) } :
                 x \in { m \in S : \A y \in S : ~ KeyLess(y.key, m.key) } }

IsOrdered(seq, KeyOf(_)) ==
    \A a, b \in 1..Len(seq) : a < b => ~ KeyLess(KeyOf(seq[b]), KeyOf(seq[a]))

\* max() of a non-empty set of text values, as SQL's max on a text column
TextMax(S) == CHOOSE x \in S : \A y \in S : ~ TextLess(x, y)

----------------------------------------------------------------------------
(* ckanext.dgu.lib.publisher: the hierarchy walks the reports import *)

RECURSIVE go_up_tree(_)
\* the publisher, then its parent's walk
go_up_tree(g) ==
    IF group_parent[g] = NoParent THEN << g >>
    ELSE << g >> \o go_up_tree(group_parent[g])

RECURSIVE go_down_tree(_)
\* the publisher and all its descendants
go_down_tree(g) ==
    {g} \cup UNION { go_down_tree(c) : c \in { x \in Groups : group_parent[x] = g } }

\* no group is its own ancestor
RECURSIVE ReachesRoot(_, _, _)
ReachesRoot(par, g, n) ==
    IF par[g] = NoParent THEN TRUE
    ELSE IF n = 0 THEN FALSE
    ELSE ReachesRoot(par, par[g], n - 1)

Forests ==
    { par \in [Groups -> Groups \cup {NoParent}] :
        \A g \in Groups : ReachesRoot(par, g, Cardinality(Groups)) }

----------------------------------------------------------------------------
(* five_stars, resource_five_stars, organisation_dataset_scores *)

\* the openness_score values of the active resources of an active package:
\* the rows the query of five_stars groups under the package
PackageScoreValues(p) ==
    { t.value : t \in { x \in task_status :
                          /\ x.key = "openness_score"
                          /\ x.entity_id \in Resources
                          /\ ResPackage(x.entity_id) = p
                          /\ ActiveResource(x.entity_id) } }

\* func.max(model.TaskStatus.value) of the group of package p
five_stars_score(p) == TextMax(PackageScoreValues(p))

\* the lists five_stars(id) may return (None when it returns "Not found")
five_stars(id) ==
    LET pkgs == { p \in Packages : /\ PackageScoreValues(p) # {}
                                   /\ (id # NoneStr => p = PackageGet(id)) }
    IN  Orders({ [ key |-> << Code(PackageTitle(p)) >>,
                   row |-> [ name |-> p, title |-> PackageTitle(p),
                             openness_score |-> five_stars_score(p) ],
                   id  |-> p ] : p \in pkgs })

\* task_status_show: the rows of the resource for task_type 'qa' and the key
task_status_show(r, k) ==
    { t \in task_status : t.entity_id = r /\ t.task_type = "qa" /\ t.key = k }

resource_five_stars(id) ==
    IF ResourceGet(id) = NoneStr THEN PyNone
    ELSE IF task_status_show(id, "openness_score") = {}
            \/ task_status_show(id, "openness_score_reason") = {}
    THEN PyNone
    ELSE LET sc == CHOOSE t \in task_status_show(id, "openness_score") : TRUE
             re == CHOOSE t \in task_status_show(id, "openness_score_reason") : TRUE
         IN  [ openness_score |-> PyInt(sc.value),
               openness_score_reason |-> re.value,
               openness_updated |-> Max2(sc.last_updated, re.last_updated) ]

\* the join of organisation_dataset_scores: a task_status row of an active
\* resource that has some 'qa' row, with an active group of its package
\* among those the org_filter names
ods_join(orgs) ==
    { p \in task_status \X (orgs \cap Groups) :
        /\ p[1].entity_id \in Resources
        /\ ActiveResource(p[1].entity_id)
        /\ \E q \in task_status : q.entity_id = p[1].entity_id /\ q.task_type = "qa"
        /\ p[2] \in ActiveGroupsOf(ResPackage(p[1].entity_id)) }

\* ... order by package.title, package.name, resource.position, task_status.key
ods_query(orgs) ==
    Orders({ [ key |-> << Code(PackageTitle(ResPackage(p[1].entity_id))),
                          Code(ResPackage(p[1].entity_id)),
                          << ResPosition(p[1].entity_id) >>,
                          Code(p[1].key) >>,
               row |-> ScoreRow(p[1].entity_id, p[2], p[1].key, p[1].value,
                                p[1].last_updated),
               id  |-> << p[1].task_type, p[2] >> ] : p \in ods_join(orgs) })

\* lines 465-478: the placeholders
new_package_data(row) ==
    [ dataset_title |-> row.package_title,
      dataset_name |-> row.package_name,
      publisher_title |-> row.publisher_title,
      publisher_name |-> row.publisher_name,
      resource_position |-> NoneNum,
      resource_id |-> NoneStr,
      resource_url |-> NoneStr,
      openness_score |-> NoneStr,
      openness_score_reason |-> NoneStr,
      last_updated |-> NoneNum ]

\* row.task_status_value > package_data['openness_score'], on unicode strings
score_greater(a, b) == TextLess(b, a)

\* a test that lets the reason of any resource through
is_any_resource(pd, row) == TRUE

\* line 489: package_data['resource_id'] == row.resource_id
is_chosen_resource(pd, row) == pd.resource_id = row.resource_id

\* the loop body, lines 463-491: the dict `data` after the row
ods_step(d, row) ==
    LET pd0 == IF Has(d, row.package_name) THEN d[row.package_name]
               ELSE new_package_data(row)
        pd1 == IF /\ row.task_status_key = "openness_score"
                  /\ (pd0.openness_score = NoneStr
                      \/ score_greater(row.task_status_value, pd0.openness_score))
               THEN [ pd0 EXCEPT !.resource_position = row.position,
                                 !.resource_id = row.resource_id,
                                 !.resource_url = row.resource_url,
                                 !.openness_score = row.task_status_value,
                                 !.openness_score_reason = NoneStr,
                                 !.last_updated = row.task_status_last_updated ]
               ELSE IF /\ row.task_status_key = "openness_score_reason"
                       /\ is_chosen_resource(pd0, row)
               THEN [ pd0 EXCEPT !.openness_score_reason = row.task_status_value ]
               ELSE pd0
    IN  Put(d, row.package_name, pd1)

Idle ==
    /\ queue = << >>
    /\ pc = "idle"
    /\ call = PyNone
    /\ rows = << >>
    /\ i = 0
    /\ last_row = PyNone
    /\ res_data = PyNone
    /\ data = << >>
    /\ result = PyNone
    /\ raised = NoError

ScoreValues == {"0", "9", "10"}

\* the reason the scoring worker gives for the score of a resource
QaReason(r) == IF r = "r2" THEN "License not open" ELSE "Not found"

\* the facts the scoring worker and the plugin's notify may have written
\* about a resource, and when
QaRows(r) ==
    { TaskRow(r, "qa", "openness_score", v, "", t) :
        v \in (IF r = "r3" THEN {"5"} ELSE ScoreValues),
        t \in (IF r = "r3" THEN Times ELSE {1}) }
    \cup { TaskRow(r, "qa", "openness_score_reason", QaReason(r), "", t) :
             t \in (IF r = "r1" THEN Times ELSE {1}) }
    \cup { TaskRow(r, "qa", "celery_task_id", "t1", "", 1) }

QaTables(r) == { T \in SUBSET QaRows(r) : UniqueTasks(T) }

ScoresMembers ==
    { { [table_id |-> "p1", group_id |-> "alpha"],
        [table_id |-> "p2", group_id |-> "alpha-sub"] } \cup extra :
      extra \in { {}, { [table_id |-> "p1", group_id |-> "alpha-sub"] } } }

ScoresInit ==
    /\ group_parent = [g \in Groups |-> IF g = "alpha-sub" THEN "alpha" ELSE NoParent]
    /\ group_state = [g \in Groups |-> "active"]
    /\ package_state = [p \in Packages |-> "active"]
    /\ resource_state = [r \in Resources |-> "active"]
    /\ member \in ScoresMembers
    /\ \E a \in QaTables("r1"), b \in QaTables("r2"), c \in QaTables("r3") :
          task_status = a \cup b \cup c
    /\ Idle

\* five_stars(id): "Not found", or one of the lists the query may yield
FiveStars(id) ==
    /\ pc = "idle"
    /\ call' = [name |-> "five_stars", id |-> id]
    /\ IF id # NoneStr /\ PackageGet(id) = NoneStr
       THEN result' = "Not found"
       ELSE result' \in five_stars(id)
    /\ pc' = "done"
    /\ UNCHANGED << store, rows, i, last_row, res_data, data, raised >>

ResourceFiveStars(id) ==
    /\ pc = "idle"
    /\ call' = [name |-> "resource_five_stars", id |-> id]
    /\ result' = resource_five_stars(id)
    /\ pc' = "done"
    /\ UNCHANGED << store, rows, i, last_row, res_data, data, raised >>

\* organisation_dataset_scores up to the query (lines 422-461); with
\* include_sub_organisations, go_down_tree(None) raises for an unknown name
OdsStart(name, incl) ==
    /\ pc = "idle"
    /\ call' = [name |-> "organisation_dataset_scores",
                organisation_name |-> name,
                include_sub_organisations |-> incl]
    /\ IF incl /\ GroupByName(name) = NoneStr
       THEN /\ pc' = "raised"
            /\ raised' = "AttributeError"
            /\ UNCHANGED rows
       ELSE /\ rows' \in ods_query(IF incl THEN go_down_tree(name) ELSE {name})
            /\ pc' = "loop"
            /\ UNCHANGED raised
    /\ UNCHANGED << store, i, last_row, res_data, data, result >>

\* one iteration of the loop (lines 462-491)
OdsRow ==
    /\ pc = "loop"
    /\ call.name = "organisation_dataset_scores"
    /\ i < Len(rows)
    /\ data' = ods_step(data, rows[i + 1])
    /\ i' = i + 1
    /\ UNCHANGED << store, pc, call, rows, last_row, res_data, result, raised >>

\* lines 493-497: model.Group.by_name(organisation_name).title and the return
OdsEnd ==
    /\ pc = "loop"
    /\ call.name = "organisation_dataset_scores"
    /\ i = Len(rows)
    /\ IF GroupByName(call.organisation_name) = NoneStr
       THEN /\ pc' = "raised"
            /\ raised' = "AttributeError"
            /\ UNCHANGED result
       ELSE /\ pc' = "done"
            /\ result' = [ publisher_name |-> call.organisation_name,
                           publisher_title |-> GroupTitle(call.organisation_name),
                           data |-> data ]
            /\ UNCHANGED raised
    /\ UNCHANGED << store, call, rows, i, last_row, res_data, data >>

OrgNames == Groups \cup {"nope"}

ScoresNext ==
    \/ \E id \in Packages \cup {NoneStr, "nope"} : FiveStars(id)
    \/ \E id \in Resources \cup {"nope"} : ResourceFiveStars(id)
    \/ \E name \in OrgNames, incl \in BOOLEAN : OdsStart(name, incl)
    \/ OdsRow
    \/ OdsEnd

SpecScores == ScoresInit /\ [][ScoresNext]_vars

----------------------------------------------------------------------------
(* Properties of the score reports *)

NumericMax(S) == CHOOSE x \in { PyInt(v) : v \in S } : \A v \in S : PyInt(v) <= x

\* the openness_score rows of package p in the stream of
\* organisation_dataset_scores
ScoreRowsOf(p) ==
    { j \in 1..Len(rows) : /\ rows[j].package_name = p
                           /\ rows[j].task_status_key = "openness_score" }

\* C2: the score reported for a dataset by five_stars and by
\* organisation_dataset_scores is the numeric maximum of its resources'
\* scores, and organisation_dataset_scores names the first resource of the
\* stream that has that score.
C2_NumericMaximum ==
    /\ (pc = "done" /\ call.name = "five_stars"
        /\ (call.id = NoneStr \/ PackageGet(call.id) # NoneStr)) =>
          \A k \in 1..Len(result) :
              PyInt(result[k].openness_score)
                  = NumericMax(PackageScoreValues(result[k].name))
    /\ (pc = "done" /\ call.name = "organisation_dataset_scores") =>
          \A p \in DOMAIN result.data :
              ScoreRowsOf(p) # {} =>
                  LET best == NumericMax({ rows[j].task_status_value : j \in ScoreRowsOf(p) })
                      first == CHOOSE j \in ScoreRowsOf(p) :
                                  /\ PyInt(rows[j].task_status_value) = best
                                  /\ \A k \in ScoreRowsOf(p) :
                                        PyInt(rows[k].task_status_value) = best => j <= k
                  IN  /\ PyInt(result.data[p].openness_score) = best
                      /\ result.data[p].resource_id = rows[first].resource_id

\* C7: a dataset none of whose resources has an openness_score record is in
\* neither the list of five_stars nor the data of organisation_dataset_scores.
C7_UnscoredOmitted ==
    /\ (pc = "done" /\ call.name = "five_stars"
        /\ (call.id = NoneStr \/ PackageGet(call.id) # NoneStr)) =>
          \A k \in 1..Len(result) : PackageScoreValues(result[k].name) # {}
    /\ (pc = "done" /\ call.name = "organisation_dataset_scores") =>
          \A p \in DOMAIN result.data : PackageScoreValues(p) # {}

----------------------------------------------------------------------------
(* organisations_with_broken_resource_links,                                *)
(* broken_resource_links_for_organisation                                   *)

\* entity_id in (select entity_id from task_status where task_type='archiver'
\*               and key='status' and value!=... for each not-broken status)
BrokenEntities ==
    { t.entity_id : t \in { x \in task_status :
                              /\ x.task_type = "archiver"
                              /\ x.key = "status"
                              /\ x.value \notin archiver_status__not_broken_link } }

\* the join both queries share: a task_status row with key 'status' of a
\* broken entity that is an active resource, with an active group of its
\* package among orgs
broken_join(orgs) ==
    { p \in task_status \X (orgs \cap Groups) :
        /\ p[1].entity_id \in BrokenEntities
        /\ p[1].key = "status"
        /\ p[1].entity_id \in Resources
        /\ ActiveResource(p[1].entity_id)
        /\ p[2] \in ActiveGroupsOf(ResPackage(p[1].entity_id)) }

\* group by "group".name, "group".title: one row per group of the join
count_row(g) ==
    LET J == { p \in broken_join(Groups) : p[2] = g }
    IN  [ broken_package_count |-> Cardinality({ ResPackage(p[1].entity_id) : p \in J }),
          broken_resource_count |-> Cardinality(J),
          publisher_name |-> g,
          publisher_title |-> GroupTitle(g) ]

\* ... order by "group".title
counts_query ==
    Orders({ [ key |-> << Code(GroupTitle(g)) >>, row |-> count_row(g), id |-> g ] :
             g \in { p[2] : p \in broken_join(Groups) } })

\* lines 296-301 and 314-319
count_row_data(title, name, packages, resources) ==
    [ publisher_title |-> title,
      publisher_name |-> name,
      broken_package_count |-> packages,
      broken_resource_count |-> resources ]

RECURSIVE flat_data(_)
\* lines 294-302
flat_data(rs) ==
    IF rs = << >> THEN << >>
    ELSE << count_row_data(Head(rs).publisher_title, Head(rs).publisher_name,
                           Head(rs).broken_package_count,
                           Head(rs).broken_resource_count) >>
         \o flat_data(Tail(rs))

rollup_overwrite(counts, publisher, row) ==
    Put(counts, publisher, << row.broken_package_count, row.broken_resource_count >>)

\* lines 307-310: counts_by_publisher after the row is added to publisher
rollup_add(counts, publisher, row) ==
    LET c == IF Has(counts, publisher) THEN counts[publisher] ELSE << 0, 0 >>
    IN  Put(counts, publisher, << c[1] + row.broken_package_count,
                                  c[2] + row.broken_resource_count >>)

RECURSIVE rollup_row(_, _, _)
\* line 306: for publisher in go_up_tree(model.Group.by_name(row.publisher_name))
rollup_row(counts, chain, row) ==
    IF chain = << >> THEN counts
    ELSE rollup_row(rollup_add(counts, Head(chain), row), Tail(chain), row)

\* line 313: sorted(counts_by_publisher.items(), key=lambda x: x[0].title)
rollup_sorted(counts) ==
    Orders({ [ key |-> << Code(GroupTitle(g)) >>,
               row |-> count_row_data(GroupTitle(g), g, counts[g][1], counts[g][2]),
               id  |-> g ] : g \in DOMAIN counts })

\* The 'error' payloads of the archiver's task_status rows
ErrNone == ""
ErrEmpty == "{}"
ErrWell == "{\"first_failure\": \"2012-01-01T00:00:00.000000\", \"last_success\": \"\"}"
ErrBad == "{first_failure"

\* json.loads: the dict, or ValueError
json_loads(e) ==
    CASE e = ErrEmpty -> [ raised |-> NoError, value |-> PyNone ]
      [] e = ErrWell  -> [ raised |-> NoError,
                           value |-> [ first_failure |-> "2012-01-01T00:00:00.000000",
                                       last_success |-> "" ] ]
      [] OTHER        -> [ raised |-> "ValueError", value |-> PyNone ]

\* lines 392-399: what the handling of row.task_status_error raises.  The
\* name item_properties_as_dates is bound nowhere (line 378 binds
\* archival_properties_as_dates), so the first key of the payload raises
\* NameError.
row_error(row) ==
    IF row.task_status_error = ErrNone THEN NoError
    ELSE IF json_loads(row.task_status_error).raised # NoError
    THEN json_loads(row.task_status_error).raised
    ELSE IF Truthy(json_loads(row.task_status_error).value) THEN "NameError"
    ELSE NoError

\* lines 382-391 and 400
brl_row_data(row) ==
    [ dataset_title |-> row.package_title,
      dataset_name |-> row.package_name,
      publisher_title |-> row.publisher_title,
      publisher_name |-> row.publisher_name,
      resource_position |-> row.position,
      resource_id |-> row.resource_id,
      resource_url |-> row.resource_url,
      status |-> row.task_status_value,
      last_updated |-> row.task_status_last_updated ]

RECURSIVE brl_loop(_, _)
\* lines 380-401: the loop over the rows, up to the first row that raises
brl_loop(rs, acc) ==
    IF rs = << >> THEN [ raised |-> NoError, data |-> acc ]
    ELSE IF row_error(Head(rs)) # NoError
    THEN [ raised |-> row_error(Head(rs)), data |-> acc ]
    ELSE brl_loop(Tail(rs), Append(acc, brl_row_data(Head(rs))))

BrlKey(r) == << Code(PackageTitle(ResPackage(r))), Code(ResPackage(r)), << ResPosition(r) >> >>

\* ... order by package.title, package.name, resource.position
brl_query(orgs) ==
    Orders({ [ key |-> BrlKey(p[1].entity_id),
               row |-> [ task_status_error |-> p[1].error ]
                       @@ ScoreRow(p[1].entity_id, p[2], p[1].key, p[1].value,
                                   p[1].last_updated),
               id  |-> << p[1].task_type, p[2] >> ] : p \in broken_join(orgs) })

brl_org_filter_children_only(name, incl) ==
    IF incl THEN {name} \cup { x \in Groups : group_parent[x] = name } ELSE {name}

\* lines 370-376: the groups the org_filter names
brl_org_filter(name, incl) == IF incl THEN go_down_tree(name) ELSE {name}

ArchiverRows(r) ==
    { TaskRow(r, "archiver", "status", "Archived successfully", ErrNone, 1) }
    \cup { TaskRow(r, "archiver", "status", "Download error", e, 2) :
             e \in IF r = "r1" THEN {ErrNone, ErrEmpty, ErrWell, ErrBad} ELSE {ErrNone} }

\* r1 may also have a row with key 'status' of another task type
OrgsTables(r) ==
    { T \in SUBSET (ArchiverRows(r)
                    \cup IF r = "r1"
                         THEN { TaskRow(r, "qa", "status", "Download error", ErrNone, 1) }
                         ELSE {}) :
        UniqueTasks(T) /\ (r = "r3" => T # {}) }

OrgsMembers ==
    { { [table_id |-> "p1", group_id |-> g] : g \in a }
      \cup { [table_id |-> "p2", group_id |-> b] } :
      a \in { {"alpha"}, {"alpha-sub"}, {"alpha", "alpha-sub"} },
      b \in { "alpha-sub", "beta" } }

\* at most one of a group, a package and a resource is not active
OrgsInit ==
    /\ group_parent \in Forests
    /\ \E off \in {"none", "alpha-sub", "p2", "r2"} :
          /\ group_state = [g \in Groups |-> IF g = off THEN "deleted" ELSE "active"]
          /\ package_state = [p \in Packages |-> IF p = off THEN "deleted" ELSE "active"]
          /\ resource_state = [r \in Resources |-> IF r = off THEN "deleted" ELSE "active"]
    /\ member \in OrgsMembers
    /\ \E a \in OrgsTables("r1"), b \in OrgsTables("r2"), c \in OrgsTables("r3") :
          task_status = a \cup b \cup c
    /\ Idle

\* organisations_with_broken_resource_links(include_sub_organisations=False)
OrgsBrokenFlat ==
    /\ pc = "idle"
    /\ call' = [name |-> "organisations_with_broken_resource_links",
                include_sub_organisations |-> FALSE]
    /\ \E rs \in counts_query : /\ rows' = rs
                                /\ result' = flat_data(rs)
    /\ i' = Len(rows')
    /\ pc' = "done"
    /\ UNCHANGED << store, last_row, res_data, data, raised >>

\* organisations_with_broken_resource_links(include_sub_organisations=True):
\* the query
RollupStart ==
    /\ pc = "idle"
    /\ call' = [name |-> "organisations_with_broken_resource_links",
                include_sub_organisations |-> TRUE]
    /\ rows' \in counts_query
    /\ pc' = "loop"
    /\ UNCHANGED << store, i, last_row, res_data, data, result, raised >>

\* lines 305-310: one row, added to its publisher and to every ancestor
RollupRow ==
    /\ pc = "loop"
    /\ call.name = "organisations_with_broken_resource_links"
    /\ i < Len(rows)
    /\ data' = rollup_row(data, go_up_tree(GroupByName(rows[i + 1].publisher_name)),
                          rows[i + 1])
    /\ i' = i + 1
    /\ UNCHANGED << store, pc, call, rows, last_row, res_data, result, raised >>

\* lines 312-321
RollupEnd ==
    /\ pc = "loop"
    /\ call.name = "organisations_with_broken_resource_links"
    /\ i = Len(rows)
    /\ result' \in rollup_sorted(data)
    /\ pc' = "done"
    /\ UNCHANGED << store, call, rows, i, last_row, res_data, data, raised >>

\* broken_resource_links_for_organisation(name, incl)
BrokenLinksForOrg(name, incl) ==
    /\ pc = "idle"
    /\ call' = [name |-> "broken_resource_links_for_organisation",
                organisation_name |-> name,
                include_sub_organisations |-> incl]
    /\ IF incl /\ GroupByName(name) = NoneStr
       THEN /\ pc' = "raised"
            /\ raised' = "AttributeError"
            /\ UNCHANGED << rows, i, result >>
       ELSE \E rs \in brl_query(brl_org_filter(name, incl)) :
              /\ rows' = rs
              /\ i' = Len(brl_loop(rs, << >>).data)
              /\ IF brl_loop(rs, << >>).raised # NoError
                 THEN /\ pc' = "raised"
                      /\ raised' = brl_loop(rs, << >>).raised
                      /\ UNCHANGED result
                 ELSE IF GroupByName(name) = NoneStr
                 THEN /\ pc' = "raised"
                      /\ raised' = "AttributeError"
                      /\ UNCHANGED result
                 ELSE /\ pc' = "done"
                      /\ result' = [ publisher_name |-> name,
                                     publisher_title |-> GroupTitle(name),
                                     data |-> brl_loop(rs, << >>).data ]
                      /\ UNCHANGED raised
    /\ UNCHANGED << store, last_row, res_data, data >>

\* broken_resource_links_by_dataset_for_organisation(organisation_id): the
\* name _get_broken_resource_links is bound nowhere in the module
BrokenLinksByDatasetForOrg(name) ==
    /\ pc = "idle"
    /\ call' = [name |-> "broken_resource_links_by_dataset_for_organisation",
                organisation_name |-> name]
    /\ pc' = "raised"
    /\ raised' = "NameError"
    /\ UNCHANGED << store, rows, i, last_row, res_data, data, result >>

\* the calls of organisations_with_broken_resource_links
CountsNext ==
    \/ OrgsBrokenFlat
    \/ RollupStart
    \/ RollupRow
    \/ RollupEnd

SpecCounts == OrgsInit /\ [][CountsNext]_vars

\* the calls of the per-organisation broken-link reports
LinksNext ==
    \/ \E name \in OrgNames, incl \in BOOLEAN : BrokenLinksForOrg(name, incl)
    \/ \E name \in OrgNames : BrokenLinksByDatasetForOrg(name)

SpecLinks == OrgsInit /\ [][LinksNext]_vars

----------------------------------------------------------------------------
(* Properties of the organisation reports *)

RECURSIVE SumOver(_, _)
\* the sum of f[x] over the x of S
SumOver(S, f) ==
    IF S = {} THEN 0
    ELSE LET x == CHOOSE y \in S : TRUE IN f[x] + SumOver(S \ {x}, f)

Range(seq) == { seq[k] : k \in 1..Len(seq) }

\* the groups below g, g included, by the parent links
Descendants(g) == { x \in Groups : \E k \in 1..Len(go_up_tree(x)) : go_up_tree(x)[k] = g }

ChildrenOf(g) == { x \in Groups : group_parent[x] = g }

\* the count reported for group g in a list of count rows, 0 when g is not listed
Reported(list, g, field) ==
    IF \E k \in 1..Len(list) : list[k].publisher_name = g
    THEN (CHOOSE e \in Range(list) : e.publisher_name = g)[field]
    ELSE 0

RollupDone ==
    /\ pc = "done"
    /\ call.name = "organisations_with_broken_resource_links"
    /\ call.include_sub_organisations

CountFields == {"broken_package_count", "broken_resource_count"}

\* C1: in the rolled-up report the count of every listed organisation is its
\* own flat count plus the rolled-up counts of its direct children, which is
\* the sum of the flat counts of the organisation and all its descendants.
C1_RollupAdditive ==
    RollupDone =>
        \A k \in 1..Len(result), f \in CountFields :
            LET g == result[k].publisher_name
                own == [ x \in Groups |-> Reported(flat_data(rows), x, f) ]
                rolled == [ x \in Groups |-> Reported(result, x, f) ]
            IN  /\ result[k][f] = own[g] + SumOver(ChildrenOf(g), rolled)
                /\ result[k][f] = SumOver(Descendants(g), own)

\* A chain of three organisations, each with broken resources of its own,
\* has been rolled up.
C1_Witness ==
    /\ RollupDone
    /\ \E a, b, c \in Groups :
          /\ group_parent[c] = b /\ group_parent[b] = a
          /\ \A x \in {a, b, c} : Reported(flat_data(rows), x, "broken_resource_count") > 0
          /\ Reported(result, a, "broken_resource_count")
                > Reported(result, b, "broken_resource_count")
          /\ Reported(result, b, "broken_resource_count")
                > Reported(result, c, "broken_resource_count")

\* the active resources, of active datasets of group g, whose archiver
\* status is not a not-broken one
BrokenResourcesOf(g) ==
    { r \in Resources :
        /\ ActiveResource(r)
        /\ g \in ActiveGroupsOf(ResPackage(r))
        /\ \E t \in task_status : /\ t.entity_id = r
                                  /\ t.task_type = "archiver"
                                  /\ t.key = "status"
                                  /\ t.value \notin archiver_status__not_broken_link }

\* C5: the flat report lists the organisations by title, each with the number
\* of its distinct broken datasets and the number of its distinct broken
\* resources.
C5_FlatCounts ==
    (/\ pc = "done"
     /\ call.name = "organisations_with_broken_resource_links"
     /\ ~ call.include_sub_organisations) =>
        /\ \A k \in 1..Len(result) :
              /\ result[k].broken_resource_count
                    = Cardinality(BrokenResourcesOf(result[k].publisher_name))
              /\ result[k].broken_package_count
                    = Cardinality({ ResPackage(r) :
                                      r \in BrokenResourcesOf(result[k].publisher_name) })
        /\ IsOrdered(result, LAMBDA e : << Code(e.publisher_title) >>)

BrlCall ==
    /\ call # PyNone
    /\ call.name = "broken_resource_links_for_organisation"

\* the outcomes of the flat report of group x
FlatOutcomes(x) == { brl_loop(rs, << >>) : rs \in brl_query(brl_org_filter(x, FALSE)) }

\* C6: the report of O with its sub-organisations returns the rows of the
\* union of the flat reports of O and its descendants, in the order of
\* (dataset title, dataset name, resource position); it raises exactly when
\* one of those flat reports raises.
C6_InclusiveIsUnionOfFlat ==
    (/\ Ended
     /\ BrlCall
     /\ call.include_sub_organisations
     /\ call.organisation_name \in Groups) =>
        /\ pc = "raised" <=>
              \E x \in Descendants(call.organisation_name) :
                  \E o \in FlatOutcomes(x) : o.raised # NoError
        /\ pc = "done" =>
              /\ Range(result.data)
                    = UNION { Range(o.data) :
                                o \in UNION { FlatOutcomes(x) :
                                                x \in Descendants(call.organisation_name) } }
              /\ IsOrdered(result.data, LAMBDA e : BrlKey(e.resource_id))

\* The report of an organisation with a grandchild has returned rows of the
\* organisation, of its child and of its grandchild.
C6_Witness ==
    /\ pc = "done"
    /\ BrlCall
    /\ call.include_sub_organisations
    /\ \E b, c \in Groups :
          /\ group_parent[c] = b /\ group_parent[b] = call.organisation_name
          /\ \A x \in {call.organisation_name, b, c} :
                \E e \in Range(result.data) : e.publisher_name = x

\* C9: a report called with an id or a name that matches no entity returns
\* its sentinel and raises nothing.
C9_NotFoundNeverRaises ==
    (Ended /\ call # PyNone) =>
        /\ (call.name = "five_stars" /\ call.id # NoneStr /\ PackageGet(call.id) = NoneStr)
              => (pc = "done" /\ result = "Not found")
        /\ (call.name = "resource_five_stars" /\ ResourceGet(call.id) = NoneStr)
              => (pc = "done" /\ ~ Truthy(result))
        /\ (/\ call.name \in {"organisation_dataset_scores",
                             "broken_resource_links_for_organisation",
                             "scores_by_dataset_for_organisation",
                             "broken_resource_links_by_dataset_for_organisation"}
            /\ GroupByName(call.organisation_name) = NoneStr)
              => (pc = "done" /\ raised = NoError)

\* C10: a row with an 'error' payload does not abort
\* broken_resource_links_for_organisation: every row of the query is emitted
\* with its dataset, publisher, resource, status and last_updated.
C10_ErrorPayloadKept ==
    (/\ Ended
     /\ BrlCall
     /\ call.organisation_name \in Groups
     /\ \E k \in 1..Len(rows) : rows[k].task_status_error # ErrNone) =>
        /\ pc = "done"
        /\ Len(result.data) = Len(rows)
        /\ \A k \in 1..Len(rows) :
              \A f \in DOMAIN brl_row_data(rows[k]) :
                  result.data[k][f] = brl_row_data(rows[k])[f]

----------------------------------------------------------------------------
(* broken_resource_links_by_dataset *)

LicenseNotOpen == "License not open"

\* the rows of the select, lines 133-149: an openness_score_reason row, other
\* than 'License not open', of an active resource of an active package that
\* has an openness_score row of value '0'
bds_join ==
    { t \in task_status :
        /\ t.key = "openness_score_reason"
        /\ t.entity_id \in Resources
        /\ ActiveResource(t.entity_id)
        /\ \E s \in task_status : /\ s.entity_id = t.entity_id
                                  /\ s.key = "openness_score"
                                  /\ s.value = "0"
        /\ t.value # LicenseNotOpen }

\* ... order by package.title
bds_query ==
    Orders({ [ key |-> << Code(PackageTitle(ResPackage(t.entity_id))) >>,
               row |-> [ package_id |-> ResPackage(t.entity_id),
                         reason |-> t.value,
                         url |-> ResUrl(t.entity_id),
                         title |-> PackageTitle(ResPackage(t.entity_id)),
                         name |-> ResPackage(t.entity_id) ],
               id  |-> << t.entity_id, t.task_type >> ] : t \in bds_join })

\* DictObj(url=row.url, openness_score_reason=row.reason)
bds_resource(row) == [ url |-> row.url, openness_score_reason |-> row.reason ]

\* a test of the key against the entry inserted last only
has_key_last(d, k) == Len(d) > 0 /\ d[Len(d)][1] = k

\* results.has_key(k), on the OrderedDict kept as its sequence of
\* << key, value >> in insertion order
has_key(d, k) == \E j \in 1..Len(d) : d[j][1] = k

\* the loop body, lines 152-155
bds_step(d, row) ==
    IF has_key(d, row.package_id)
    THEN [ j \in 1..Len(d) |->
             IF d[j][1] = row.package_id
             THEN << d[j][1],
                     [ d[j][2] EXCEPT !.resources =
                                        Append(@, bds_resource(row)) ] >>
             ELSE d[j] ]
    ELSE Append(d, << row.package_id,
                      [ name |-> row.name, title |-> row.title,
                        resources |-> << bds_resource(row) >> ] >>)

\* results.values()
values(d) == [ j \in 1..Len(d) |-> d[j][2] ]

\* what the scoring worker may have recorded about a resource
BdsRows(r) ==
    { TaskRow(r, "qa", "openness_score", v, "", 1) : v \in {"0", "5"} }
    \cup { TaskRow(r, "qa", "openness_score_reason", v, "", 1) :
             v \in {"Not found", LicenseNotOpen} }

BdsTables(r) == { T \in SUBSET BdsRows(r) : UniqueTasks(T) }

BdsInit ==
    /\ group_parent = [g \in Groups |-> NoParent]
    /\ group_state = [g \in Groups |-> "active"]
    /\ \E off \in {"none", "p3", "r2"} :
          /\ package_state = [p \in Packages |-> IF p = off THEN "deleted" ELSE "active"]
          /\ resource_state = [r \in Resources |-> IF r = off THEN "deleted" ELSE "active"]
    /\ member = {}
    /\ \E a \in BdsTables("r1"), b \in BdsTables("r2"),
          c \in BdsTables("r3"), d \in BdsTables("r4") :
          task_status = a \cup b \cup c \cup d
    /\ Idle

\* lines 133-151: the query and results = OrderedDict()
BdsStart ==
    /\ pc = "idle"
    /\ call' = [name |-> "broken_resource_links_by_dataset"]
    /\ rows' \in bds_query
    /\ pc' = "loop"
    /\ UNCHANGED << store, i, last_row, res_data, data, result, raised >>

\* one iteration of the loop (lines 152-155)
BdsRow ==
    /\ pc = "loop"
    /\ call.name = "broken_resource_links_by_dataset"
    /\ i < Len(rows)
    /\ data' = bds_step(data, rows[i + 1])
    /\ i' = i + 1
    /\ UNCHANGED << store, pc, call, rows, last_row, res_data, result, raised >>

\* line 156
BdsEnd ==
    /\ pc = "loop"
    /\ call.name = "broken_resource_links_by_dataset"
    /\ i = Len(rows)
    /\ result' = values(data)
    /\ pc' = "done"
    /\ UNCHANGED << store, call, rows, i, last_row, res_data, data, raised >>

BdsNext ==
    \/ BdsStart
    \/ BdsRow
    \/ BdsEnd

SpecByDataset == BdsInit /\ [][BdsNext]_vars

----------------------------------------------------------------------------
(* Properties of broken_resource_links_by_dataset *)

\* the active resources of active datasets with an openness_score of '0' and
\* an openness_score_reason other than 'License not open'
Qualifying ==
    { r \in Resources :
        /\ resource_state[r] = "active"
        /\ package_state[ResPackage(r)] = "active"
        /\ \E s \in task_status :
              s.entity_id = r /\ s.key = "openness_score" /\ s.value = "0"
        /\ \E t \in task_status :
              /\ t.entity_id = r /\ t.key = "openness_score_reason"
              /\ t.value # "License not open" }

ReasonOf(r) ==
    (CHOOSE t \in task_status :
        t.entity_id = r /\ t.key = "openness_score_reason").value

----------------------------------------------------------------------------
(* QAPlugin.notify and QAPlugin._create_task (plugin.py) *)

\* isinstance(entity, model.Resource)
IsResource(entity) == entity \in Resources

\* model.DomainObjectOperation; notify's default for operation is None
Operations == {"new", "changed", "deleted", NoneStr}

\* a test of the entity alone
notify_creates_for_any_operation(entity, operation) == IsResource(entity)

\* lines 109-118: whether notify(entity, operation) calls _create_task
notify_creates(entity, operation) ==
    IF ~ IsResource(entity) THEN FALSE
    ELSE IF operation # NoneStr THEN operation = "new"
    ELSE TRUE

\* task.task_id: the id the broker gives the n-th job, never given before
task_id(n) == ToString(n)

\* send_task("qa.update", [context, data]): data is the dictized resource
send_task(q, resource) ==
    Append(q, [ name |-> "qa.update", resource_id |-> resource,
                task_id |-> task_id(Len(q) + 1) ])

\* get_action('task_status_update'): the row replaces the one of the same
\* (entity_id, task_type, key), if any
task_status_update(T, row) ==
    { t \in T : ~ (/\ t.entity_id = row.entity_id
                   /\ t.task_type = row.task_type
                   /\ t.key = row.key) } \cup {row}

\* what is recorded before the calls: an earlier job of r1 and a score
NotifyRows ==
    { TaskRow("r1", "qa", "celery_task_id", "0", "", 1),
      TaskRow("r1", "qa", "openness_score", "5", "", 1) }

NotifyEntities == {"r1", "r2", "p1"}

NotifyInit ==
    /\ group_parent = [g \in Groups |-> NoParent]
    /\ group_state = [g \in Groups |-> "active"]
    /\ package_state = [p \in Packages |-> "active"]
    /\ resource_state = [r \in Resources |-> "active"]
    /\ member = {}
    /\ task_status \in SUBSET NotifyRows
    /\ Idle

\* notify(entity, operation) up to send_task: lines 108-129
Notify(entity, operation) ==
    /\ pc = "idle"
    /\ call' = [name |-> "notify", entity |-> entity, operation |-> operation]
    /\ IF notify_creates(entity, operation)
       THEN /\ Len(queue) < MaxJobs
            /\ queue' = send_task(queue, entity)
            /\ pc' = "sent"
       ELSE UNCHANGED << queue, pc >>
    /\ UNCHANGED << group_parent, group_state, package_state, resource_state,
                    member, task_status, rows, i, last_row, res_data, data,
                    result, raised >>

\* _create_task after send_task: lines 132-149, at a time of the clock
CreateTaskStatus(now) ==
    /\ pc = "sent"
    /\ task_status' = task_status_update(task_status,
                          TaskRow(call.entity, "qa", "celery_task_id",
                                  queue[Len(queue)].task_id, "", now))
    /\ pc' = "idle"
    /\ UNCHANGED << group_parent, group_state, package_state, resource_state,
                    member, queue, call, rows, i, last_row, res_data, data,
                    result, raised >>

NotifyNext ==
    \/ \E entity \in NotifyEntities, operation \in Operations :
          Notify(entity, operation)
    \/ \E now \in Times : CreateTaskStatus(now)

SpecNotify == NotifyInit /\ [][NotifyNext]_vars

----------------------------------------------------------------------------
(* Properties of notify *)

\* the rows of the key (r, 'qa', 'celery_task_id')
CeleryRows(T, r) ==
    { t \in T : t.entity_id = r /\ t.task_type = "qa" /\ t.key = "celery_task_id" }

\* the positions in the queue of the jobs of resource r
JobsOf(r) == { j \in 1..Len(queue) : queue[j].resource_id = r }

\* a step of a call of notify for a Resource that is new or whose URL changed
\* (no operation): first one 'qa.update' job more in the queue, then one row
\* of the key with the id of that job, and nothing else written
CreatingCall ==
    /\ call'.entity \in Resources
    /\ call'.operation \in {"new", NoneStr}
    /\ \/ /\ pc = "idle" /\ pc' = "sent"
          /\ Len(queue') = Len(queue) + 1
          /\ SubSeq(queue', 1, Len(queue)) = queue
          /\ queue'[Len(queue')].name = "qa.update"
          /\ queue'[Len(queue')].resource_id = call'.entity
          /\ \A j \in 1..Len(queue) : queue[j].task_id # queue'[Len(queue')].task_id
          /\ task_status' = task_status
       \/ /\ pc = "sent" /\ pc' = "idle"
          /\ call' = call
          /\ queue' = queue
          /\ \E t \in task_status' :
                /\ CeleryRows(task_status', call.entity) = {t}
                /\ t.value = queue[Len(queue)].task_id
          /\ task_status' \ CeleryRows(task_status', call.entity)
               = task_status \ CeleryRows(task_status, call.entity)

\* a step of any other call of notify
OtherCall ==
    /\ ~ (call'.entity \in Resources /\ call'.operation \in {"new", NoneStr})
    /\ pc = "idle" /\ pc' = "idle"
    /\ queue' = queue
    /\ task_status' = task_status

\* between calls, the stored celery_task_id of a resource that has had a job
\* is the id of the job sent last for it
LatestJobStored ==
    pc = "idle" =>
        \A r \in Resources :
            JobsOf(r) # {} =>
                \E t \in task_status :
                    /\ CeleryRows(task_status, r) = {t}
                    /\ t.value = queue[CHOOSE j \in JobsOf(r) :
                                         \A k \in JobsOf(r) : k <= j].task_id

\* C12: in any sequence of calls of notify, a call for a Resource with
\* operation new or with no operation enqueues exactly one 'qa.update' job
\* and then records one task status of key (resource.id, 'qa',
\* 'celery_task_id') whose value is the id of that job, so that the stored
\* celery_task_id of a resource is the id of the job enqueued last for it; a
\* call for another entity, or for a Resource with another operation,
\* enqueues nothing and writes nothing.
C12_NotifyEnqueuesAndRecords ==
    [][CreatingCall \/ OtherCall]_vars /\ []LatestJobStored

\* two jobs were sent for r1, the second on a URL change, and the second
\* call has returned
C12_Witness ==
    /\ pc = "idle"
    /\ Len(queue) = 2
    /\ queue[1].resource_id = "r1"
    /\ queue[2].resource_id = "r1"
    /\ call = [name |-> "notify", entity |-> "r1", operation |-> NoneStr]
    /\ \E t \in task_status : t.key = "celery_task_id" /\ t.value = queue[2].task_id

----------------------------------------------------------------------------
(* Properties of the last-updated timestamps *)

SetMax(S) == CHOOSE x \in S : \A y \in S : y <= x

\* the maximal runs of rows of one resource in the stream read so far: the
\* rows the collation loop merges into one record
Runs ==
    { ab \in (1..Len(rows)) \X (1..Len(rows)) :
        /\ ab[1] <= ab[2]
        /\ \A j \in ab[1]..ab[2] : rows[j].resource_id = rows[ab[1]].resource_id
        /\ (ab[1] = 1 \/ rows[ab[1] - 1].resource_id # rows[ab[1]].resource_id)
        /\ (ab[2] = Len(rows)
            \/ rows[ab[2] + 1].resource_id # rows[ab[2]].resource_id) }

RunMax(ab) == SetMax({ rows[j].task_status_last_updated : j \in ab[1]..ab[2] })

\* scores_by_dataset_for_organisation: every record emitted, and the
\* accumulator, carry the maximum over the rows merged into them
LastUpdatedOfRecords ==
    (Truthy(call) /\ call.name = "scores_by_dataset_for_organisation") =>
        /\ \A k \in 1..Len(data) :
              \E ab \in Runs : /\ rows[ab[1]].resource_id = data[k]["resource_id"]
                               /\ data[k]["openness_score_updated"] = RunMax(ab)
        /\ (pc = "loop" /\ Truthy(res_data)) =>
              \E ab \in Runs : /\ ab[2] = Len(rows)
                               /\ res_data["openness_score_updated"] = RunMax(ab)

\* resource_five_stars: the maximum of the score's and the reason's
LastUpdatedOfResource ==
    (pc = "done" /\ call.name = "resource_five_stars" /\ Truthy(result)) =>
        result.openness_updated
          = SetMax({ t.last_updated :
                       t \in { x \in task_status :
                                 /\ x.entity_id = call.id
                                 /\ x.task_type = "qa"
                                 /\ x.key \in {"openness_score",
                                               "openness_score_reason"} } })

\* organisation_dataset_scores: the maximum of the score's and the reason's
\* of the resource the entry names
LastUpdatedOfDataset ==
    (pc = "done" /\ call.name = "organisation_dataset_scores") =>
        \A p \in DOMAIN result.data :
            result.data[p].resource_id # NoneStr =>
                result.data[p].last_updated
                  = SetMax({ rows[j].task_status_last_updated :
                               j \in { n \in 1..Len(rows) :
                                         /\ rows[n].resource_id
                                              = result.data[p].resource_id
                                         /\ rows[n].task_status_key
                                              \in {"openness_score",
                                                   "openness_score_reason"} } })

\* C13: the last-updated timestamp reported for a resource is the maximum
\* last_updated over the status rows merged for it: 'openness_score_updated'
\* of every record emitted by scores_by_dataset_for_organisation,
\* 'openness_updated' of resource_five_stars, and 'last_updated' of every
\* dataset entry of organisation_dataset_scores.
C13_LastUpdatedIsMaximum ==
    /\ LastUpdatedOfRecords
    /\ LastUpdatedOfResource
    /\ LastUpdatedOfDataset

----------------------------------------------------------------------------
(* Properties of the entries of organisation_dataset_scores *)

\* the values task_status holds for resource r under key k
StoredValues(r, k) ==
    { t.value : t \in { x \in task_status : x.entity_id = r /\ x.key = k } }

\* C14: after any prefix of the row stream of organisation_dataset_scores,
\* the openness_score_reason of a dataset entry is None or the reason of the
\* very resource the entry's resource_id names, and the entry's
\* resource_url, resource_position and openness_score are that resource's.
C14_EntryOfOneResource ==
    (Truthy(call) /\ call.name = "organisation_dataset_scores") =>
        \A p \in DOMAIN data :
            IF data[p].resource_id = NoneStr
            THEN /\ data[p].resource_url = NoneStr
                 /\ data[p].resource_position = NoneNum
                 /\ data[p].openness_score = NoneStr
                 /\ data[p].openness_score_reason = NoneStr
            ELSE /\ data[p].resource_id \in Resources
                 /\ ResPackage(data[p].resource_id) = p
                 /\ data[p].resource_url = ResUrl(data[p].resource_id)
                 /\ data[p].resource_position = ResPosition(data[p].resource_id)
                 /\ data[p].openness_score
                      \in StoredValues(data[p].resource_id, "openness_score")
                 /\ \/ data[p].openness_score_reason = NoneStr
                    \/ data[p].openness_score_reason
                         \in StoredValues(data[p].resource_id,
                                          "openness_score_reason")

\* the entry of p1 names r1 and has its reason, after the reason row of r2, a
\* resource of the same dataset with another reason, was processed
C14_Witness ==
    /\ Truthy(call)
    /\ call.name = "organisation_dataset_scores"
    /\ "p1" \in DOMAIN data
    /\ data["p1"].resource_id = "r1"
    /\ data["p1"].openness_score_reason = "Not found"
    /\ \E j \in 1..i : /\ rows[j].resource_id = "r2"
                       /\ rows[j].task_status_key = "openness_score_reason"
                       /\ rows[j].task_status_value # "Not found"

====
